---------------------------- MODULE Spec2Model ----------------------------
(***************************************************************************)
(* A model of the TikTok channel validator (tiktok_channel_validator.py):  *)
(* the single validation attempt, the retry loop around it, and the batch  *)
(* run over a CSV of channels that skips the channels already present in   *)
(* the output file and rewrites that file sorted by status.                *)
(*                                                                         *)
(* Text (usernames, element text) is a sequence of one-character strings,  *)
(* so that str.lower() and the substring test are computed, not assumed.   *)
(***************************************************************************)
EXTENDS Integers, Sequences, FiniteSets, TLC

(***************************************************************************)
(* Bounds of the model.                                                    *)
(***************************************************************************)
MaxTargets == 2      \* rows of the input CSV
MaxStore == 1        \* rows of the output CSV before the run
MaxAttempts == 2     \* largest max_attempts (--attempts)
MaxSortLen == 4      \* rows handed to write_sorted_csv on its own
MaxPairAttempts == 3 \* largest max_attempts of the two calls side by side
MaxRuns == 2         \* runs of main() over the same files
MaxTextLen == 4      \* characters of the response text of the finder
MaxFinderStore == 2  \* rows of the channel CSV of the finder before the call
MaxLinkLines == 2    \* lines of the links file of the video processor

(***************************************************************************)
(* Text.                                                                   *)
(***************************************************************************)
UpperCase ==
    <<"A", "B", "C", "D", "E", "F", "G", "H", "I", "J", "K", "L", "M",
      "N", "O", "P", "Q", "R", "S", "T", "U", "V", "W", "X", "Y", "Z">>

LowerCase ==
    <<"a", "b", "c", "d", "e", "f", "g", "h", "i", "j", "k", "l", "m",
      "n", "o", "p", "q", "r", "s", "t", "u", "v", "w", "x", "y", "z">>

\* str.lower() on one character: A-Z map to a-z, anything else is kept.
LowerChar(c) ==
    IF \E k \in DOMAIN UpperCase : UpperCase[k] = c
    THEN LowerCase[CHOOSE k \in DOMAIN UpperCase : UpperCase[k] = c]
    ELSE c

\* str.lower()
Lower(s) == [k \in DOMAIN s |-> LowerChar(s[k])]

\* needle in hay
Contains(hay, needle) ==
    \E k \in 0..(Len(hay) - Len(needle)) :
        SubSeq(hay, k + 1, k + Len(needle)) = needle

\* The phrase of RULE 1.
AbsencePhrase ==
    <<"c", "o", "u", "l", "d", "n", "'", "t", " ", "f", "i", "n", "d", " ",
      "t", "h", "i", "s", " ", "a", "c", "c", "o", "u", "n", "t">>

\* Texts the error container can carry.
TextNotFound ==
    <<"C", "o", "u", "l", "d", "n", "'", "t", " ", "f", "i", "n", "d", " ",
      "t", "h", "i", "s", " ", "a", "c", "c", "o", "u", "n", "t">>

TextNotFoundUpper ==
    <<"C", "O", "U", "L", "D", "N", "'", "T", " ", "F", "I", "N", "D", " ",
      "T", "H", "I", "S", " ", "A", "C", "C", "O", "U", "N", "T">>

TextOther ==
    <<"S", "o", "m", "e", "t", "h", "i", "n", "g", " ", "w", "e", "n", "t",
      " ", "w", "r", "o", "n", "g">>

ErrorTexts == {TextNotFound, TextNotFoundUpper, TextOther, <<>>}

\* Texts the user title can carry.
TitleAcctOne ==
    <<"A", "c", "c", "t", " ", "O", "n", "e">>

TitleBob ==
    <<"B", "o", "b">>

Titles == {TitleAcctOne, TitleBob}

\* str(e) of an exception caught at line 85
ExceptionText ==
    <<"d", "r", "i", "v", "e", "r", " ", "e", "r", "r", "o", "r">>

\* The fixed parts of the messages.
MsgAccountNotFound ==
    <<"A", "c", "c", "o", "u", "n", "t", " ", "n", "o", "t", " ", "f",
      "o", "u", "n", "d", ":", " ">>

MsgTitleFound ==
    <<"U", "s", "e", "r", "n", "a", "m", "e", " ", "t", "i", "t", "l",
      "e", " ", "f", "o", "u", "n", "d", ":", " ">>

MsgNoMatch ==
    <<"N", "e", "i", "t", "h", "e", "r", " ", "v", "a", "l", "i", "d",
      " ", "n", "o", "r", " ", "i", "n", "v", "a", "l", "i", "d", " ",
      "r", "u", "l", "e", " ", "m", "a", "t", "c", "h", "e", "d">>

MsgError ==
    <<"E", "r", "r", "o", "r", ":", " ">>

MsgNoResultAfter ==
    <<"N", "o", " ", "d", "e", "f", "i", "n", "i", "t", "i", "v", "e",
      " ", "r", "e", "s", "u", "l", "t", " ", "a", "f", "t", "e", "r",
      " ">>

MsgAttempts ==
    <<" ", "a", "t", "t", "e", "m", "p", "t", "s">>

Quote == <<"'">>

Digits == <<"0", "1", "2", "3", "4", "5", "6", "7", "8", "9">>

\* An integer formatted by an f-string.
RECURSIVE NatStr(_)
NatStr(n) ==
    IF n < 10 THEN <<Digits[n + 1]>>
    ELSE NatStr(n \div 10) \o <<Digits[(n % 10) + 1]>>

IntStr(n) == IF n < 0 THEN <<"-">> \o NatStr(0 - n) ELSE NatStr(n)

\* Usernames of the input file: x and X differ only in case.
Usernames == {<<"x">>, <<"X">>}

\* Usernames of the output file before the run: x is in the input, y is not.
StoreUsernames == {<<"x">>, <<"y">>}

(***************************************************************************)
(* Rows and statuses.  A row of all_channels is [username, status]; a row  *)
(* read from the input CSV has no status key, written NoStatus here.       *)
(***************************************************************************)
NoStatus == "<no status key>"

Statuses == {"valid", "undefined", "invalid"}

StoreStatuses == Statuses \cup {""}

Row(u, s) == [username |-> u, status |-> s]

\* All sequences over S of length 0..n.
SeqsUpTo(S, n) == UNION {[1..k -> S] : k \in 0..n}

EmptyDict == [u \in {} |-> ""]

\* d[k] = v
Put(d, k, v) == [u \in (DOMAIN d) \cup {k} |-> IF u = k THEN v ELSE d[u]]

(***************************************************************************)
(* read_csv: the rows of the input file (a missing file reads as no rows). *)
(***************************************************************************)
read_csv(file) == file

(***************************************************************************)
(* read_existing_results: username -> status of the rows of the output     *)
(* file that have a non-empty status; a later row replaces an earlier one. *)
(* The key is row["username"] as written.                                  *)
(***************************************************************************)
RECURSIVE ReadRows(_, _)
ReadRows(rows, acc) ==
    IF rows = <<>> THEN acc
    ELSE LET row == Head(rows)
         IN  ReadRows(Tail(rows),
                      IF row.status # NoStatus /\ row.status # ""
                      THEN Put(acc, row.username, row.status)
                      ELSE acc)

read_existing_results_ignores_undefined(file) ==
    ReadRows(SelectSeq(file, LAMBDA r : r.status # "undefined"), EmptyDict)

read_existing_results(file) == ReadRows(file, EmptyDict)

(***************************************************************************)
(* write_sorted_csv.                                                       *)
(***************************************************************************)
\* status_order.get(x.get("status", "undefined"), 3)
SortKeyReversed(row) ==
    LET s == IF row.status = NoStatus THEN "undefined" ELSE row.status
    IN  CASE s = "valid" -> 3
          [] s = "undefined" -> 2
          [] s = "invalid" -> 1
          [] OTHER -> 1

SortKey(row) ==
    LET s == IF row.status = NoStatus THEN "undefined" ELSE row.status
    IN  CASE s = "valid" -> 1
          [] s = "undefined" -> 2
          [] s = "invalid" -> 3
          [] OTHER -> 3

\* Insert row after every row whose key is not greater: keeps sorted() stable.
RECURSIVE InsertStable(_, _)
InsertStable(sorted, row) ==
    IF sorted = <<>> THEN <<row>>
    ELSE IF SortKey(Head(sorted)) <= SortKey(row)
         THEN <<Head(sorted)>> \o InsertStable(Tail(sorted), row)
         ELSE <<row>> \o sorted

\* sorted(channels, key=...)
RECURSIVE SortedFrom(_, _)
SortedFrom(channels, acc) ==
    IF channels = <<>> THEN acc
    ELSE SortedFrom(Tail(channels), InsertStable(acc, Head(channels)))

sorted(channels) == SortedFrom(channels, <<>>)

\* csv.DictWriter with fieldnames = keys of channels[0]: a row that lacks the
\* status key is written with an empty status; a row with a status key that
\* channels[0] lacks makes writerows raise ValueError after the file was
\* truncated and the rows before it were written.
WriteRows(rows, hasStatus) ==
    [k \in DOMAIN rows |->
        IF hasStatus
        THEN Row(rows[k].username,
                 IF rows[k].status = NoStatus THEN "" ELSE rows[k].status)
        ELSE rows[k]]

FirstBad(rows) ==
    IF \E k \in DOMAIN rows : rows[k].status # NoStatus
    THEN CHOOSE k \in DOMAIN rows :
            /\ rows[k].status # NoStatus
            /\ \A j \in 1..(k - 1) : rows[j].status = NoStatus
    ELSE 0

\* The result of write_sorted_csv(channels, output_file) when the file held
\* `file`: [file |-> its new content, raised |-> whether ValueError escaped].
write_sorted_csv(channels, file) ==
    IF channels = <<>> THEN [file |-> file, raised |-> FALSE]
    ELSE LET sorted_channels == sorted(channels)
             hasStatus == channels[1].status # NoStatus
             bad == IF hasStatus THEN 0 ELSE FirstBad(sorted_channels)
         IN  IF bad = 0
             THEN [file |-> WriteRows(sorted_channels, hasStatus),
                   raised |-> FALSE]
             ELSE [file |-> WriteRows(SubSeq(sorted_channels, 1, bad - 1),
                                      hasStatus),
                   raised |-> TRUE]

(***************************************************************************)
(* validate_tiktok_channel_single_attempt: what one attempt returns.       *)
(***************************************************************************)
\* lines 47-52, with f"Account not found: '{error_text}'"
INVALID_RESULT(error_text) ==
    [status |-> "INVALID", rule_matched |-> "INVALID_RULE",
     message |-> MsgAccountNotFound \o Quote \o error_text \o Quote]

\* lines 67-72, with f"Username title found: '{username_text}'"
VALID_RESULT(username_text) ==
    [status |-> "VALID", rule_matched |-> "VALID_RULE",
     message |-> MsgTitleFound \o Quote \o username_text \o Quote]

\* lines 78-83
NO_MATCH_RESULT ==
    [status |-> "NO_MATCH", rule_matched |-> "NONE", message |-> MsgNoMatch]

\* lines 86-91, with f"Error: {str(e)}"
ERROR_RESULT ==
    [status |-> "ERROR", rule_matched |-> "ERROR",
     message |-> MsgError \o ExceptionText]

NoResult == [status |-> "", rule_matched |-> "", message |-> <<>>]

RuleMatched == {"INVALID_RULE", "VALID_RULE", "NONE", "ERROR"}

\* What the waits of one attempt find in the loaded page.  absence: the
\* error container within the 5 s wait (found with its text, timeout, or
\* another exception); presence: the user title within the main timeout
\* (found with its text, timeout, or another exception).
Pages ==
    [absence : [kind : {"found"}, text : ErrorTexts]
                 \cup {[kind |-> "timeout", text |-> <<>>],
                       [kind |-> "raise", text |-> <<>>]},
     presence : [kind : {"found"}, text : Titles]
                 \cup {[kind |-> "timeout", text |-> <<>>],
                       [kind |-> "raise", text |-> <<>>]}]

NoPage ==
    [absence |-> [kind |-> "timeout", text |-> <<>>],
     presence |-> [kind |-> "timeout", text |-> <<>>]]

\* driver.quit() left out
driver_quit_skipped(open) == open

\* line 94: driver.quit() ends the session
driver_quit(open) == open - 1

\* any text of the error container taken for the phrase
PhraseMatchesAnyText(error_text) == TRUE

\* "couldn't find this account" in error_text.lower()
PhraseMatchesExactCase(error_text) == Contains(error_text, AbsencePhrase)

PhraseMatches(error_text) == Contains(Lower(error_text), AbsencePhrase)

\* lines 57-88 with TimeoutException of the title wait left to line 85
Rule2ResultTimeoutIsError(presence) ==
    IF presence.kind = "found" THEN VALID_RESULT(presence.text)
    ELSE ERROR_RESULT

\* lines 57-88: what RULE 2 returns for what the title wait finds
Rule2Result(presence) ==
    CASE presence.kind = "found" -> VALID_RESULT(presence.text)
      [] presence.kind = "timeout" -> NO_MATCH_RESULT
      [] OTHER -> ERROR_RESULT

(***************************************************************************)
(* validate_tiktok_channel: the retry loop, as steps on a record           *)
(*   attempt  the loop variable of range(1, max_attempts + 1)              *)
(*   calls    single attempts called so far                                *)
(*   sleeps   time.sleep(3) taken so far                                   *)
(*   state    ATTEMPTING until the function returns                        *)
(*   status   the status of the returned dictionary                        *)
(*   message  the message of the returned dictionary                       *)
(***************************************************************************)
NewController ==
    [attempt |-> 1, calls |-> 0, sleeps |-> 0, state |-> "ATTEMPTING",
     status |-> "", message |-> <<>>]

IdleController ==
    [attempt |-> 0, calls |-> 0, sleeps |-> 0, state |-> "IDLE",
     status |-> "", message |-> <<>>]

\* status_map whose keys match no status of a result
status_map_no_key_matches(status) == "undefined"

\* status_map.get(result["status"], "undefined")
status_map(status) ==
    CASE status = "VALID" -> "valid"
      [] status = "INVALID" -> "invalid"
      [] status = "UNDEFINED" -> "undefined"
      [] OTHER -> "undefined"

\* range(1, max_attempts + 2) in place of range(1, max_attempts + 1)
HasNextAttemptInclusive(c, max) == c.attempt <= max + 1

\* range(1, max_attempts) in place of range(1, max_attempts + 1)
HasNextAttemptExclusive(c, max) == c.attempt < max

\* for attempt in range(1, max_attempts + 1): is there another iteration?
HasNextAttempt(c, max) == c.attempt <= max

\* line 104: the call of the single attempt
BeginAttempt(c) == [c EXCEPT !.calls = @ + 1]

\* lines 131-141 returning "invalid" for a channel no attempt resolved
ExhaustedAsInvalid(c, max) ==
    [c EXCEPT !.state = "RESOLVED_UNDEFINED", !.status = "invalid",
              !.message = MsgNoResultAfter \o IntStr(max) \o MsgAttempts]

\* lines 131-141: all attempts exhausted
Exhausted(c, max) ==
    [c EXCEPT !.state = "RESOLVED_UNDEFINED", !.status = "undefined",
              !.message = MsgNoResultAfter \o IntStr(max) \o MsgAttempts]

\* lines 107-129 with ERROR taken for a definitive result
AfterAttemptErrorIsFinal(c, max, res) ==
    IF res.rule_matched \in {"VALID_RULE", "INVALID_RULE", "ERROR"}
    THEN [c EXCEPT !.state = "RESOLVED_DEFINITIVE",
                   !.status = status_map(res.status),
                   !.message = res.message]
    ELSE [c EXCEPT !.sleeps = IF c.attempt < max THEN @ + 1 ELSE @,
                   !.attempt = @ + 1]

\* lines 107-129 without the return of a definitive result
AfterAttemptNoEarlyExit(c, max, res) ==
    IF res.rule_matched \in {"VALID_RULE", "INVALID_RULE"} /\ c.attempt >= max
    THEN [c EXCEPT !.state = "RESOLVED_DEFINITIVE",
                   !.status = status_map(res.status),
                   !.message = res.message]
    ELSE [c EXCEPT !.sleeps = IF c.attempt < max THEN @ + 1 ELSE @,
                   !.attempt = @ + 1]

\* lines 107-129: return a definitive result, else sleep if attempts remain
AfterAttempt(c, max, res) ==
    IF res.rule_matched \in {"VALID_RULE", "INVALID_RULE"}
    THEN [c EXCEPT !.state = "RESOLVED_DEFINITIVE",
                   !.status = status_map(res.status),
                   !.message = res.message]
    ELSE [c EXCEPT !.sleeps = IF c.attempt < max THEN @ + 1 ELSE @,
                   !.attempt = @ + 1]

(***************************************************************************)
(* validate_csv_channels, lines 217-236: split the input rows into the     *)
(* rows already processed (status copied from the output file) and the     *)
(* rows to process.                                                        *)
(***************************************************************************)
RECURSIVE FilterFrom(_, _, _, _)
FilterFrom(channels, done, todo, all) ==
    IF channels = <<>> THEN [to_process |-> todo, all |-> all]
    ELSE LET username == Head(channels)
         IN  IF username \in DOMAIN done
             THEN FilterFrom(Tail(channels), done, todo,
                             Append(all, Row(username, done[username])))
             ELSE FilterFrom(Tail(channels), done,
                             Append(todo, username),
                             Append(all, Row(username, NoStatus)))

FilterChannelsNeverSkips(channels, done) ==
    FilterFrom(channels, EmptyDict, <<>>, <<>>)

\* lines 218-236 with channels_to_process built back to front
FilterChannelsReversed(channels, done) ==
    LET f == FilterFrom(channels, done, <<>>, <<>>)
        n == Len(f.to_process)
    IN  [to_process |-> [k \in 1..n |-> f.to_process[n + 1 - k]],
         all |-> f.all]

FilterChannels(channels, done) == FilterFrom(channels, done, <<>>, <<>>)

\* lines 248-264 saving the report after every channel
StoreDuringBatchSaved(file, all) == write_sorted_csv(all, file).file

\* lines 248-264: what the loop over channels_to_process does to the output
\* file holding `file` when the rows are `all`: it does not open it.
StoreDuringBatch(file, all) == file

\* lines 164-169 inside a try that swallows the exception
open_for_read_swallowed(readable) == "ok"

\* lines 164-169: open() and the csv reader on the existing output file
\* either succeed or raise; nothing in read_existing_results or its callers
\* catches the exception.
open_for_read(readable) == IF readable THEN "ok" ELSE "raise"

\* lines 263-264: time.sleep(2) after channel k of n, unless it is the last
PauseAfterAlways(k, n, sleeps) == sleeps + 1

PauseAfter(k, n, sleeps) == IF k < n THEN sleeps + 1 ELSE sleeps

\* lines 256-260: set the status of the first row with this username
UpdateStatus(all, username, status) ==
    IF \E j \in DOMAIN all : all[j].username = username
    THEN LET j == CHOOSE k \in DOMAIN all :
                     /\ all[k].username = username
                     /\ \A m \in 1..(k - 1) : all[m].username # username
         IN  [all EXCEPT ![j].status = status]
    ELSE all

(***************************************************************************)
(* State.                                                                  *)
(***************************************************************************)
VARIABLES
    input_file,          \* usernames of the rows of the input CSV
    output_file,         \* rows of the output CSV
    store0,              \* the output CSV as it was before the run
    max_attempts,        \* --attempts
    pc,                  \* where validate_csv_channels is
    processed,           \* read_existing_results(output_file)
    all_channels,        \* rows of the report
    channels_to_process, \* usernames still to validate
    i,                   \* index of the loop over channels_to_process
    ctl,                 \* the running validate_tiktok_channel
    sa_pc,               \* where the single attempt is
    page,                \* what the waits of the current attempt find
    result,              \* the dictionary the single attempt returns
    sessions,            \* Chrome sessions open now
    presence_checked,    \* RULE 2 waited in the current attempt
    probed,              \* usernames validate_tiktok_channel was called for
    opened_for,          \* usernames a Chrome session was opened for
    indefinite,          \* attempts of the current call that returned
                         \* NONE or ERROR
    definitive,          \* attempts of the current call that returned
                         \* VALID_RULE or INVALID_RULE
    inter_sleeps,        \* time.sleep(2) taken
    written,             \* write_sorted_csv was called
    exc,                 \* the exception that left validate_csv_channels
    store_readable,      \* open() and the csv reader succeed on the output
                         \* file
    run,                 \* which run of main() over these files this is
    store_reads,         \* times this run opened the output file to read
    store_writes,        \* times this run opened the output file to write
    opened,              \* sessions opened during the current call
    attempts,            \* single attempts called during this run, counted
                         \* where an attempt is one step
    ctl2,                \* a second validate_tiktok_channel, run beside ctl
    seqA,                \* the attempt results given to ctl
    seqB,                \* the attempt results given to ctl2
    sort_in,             \* channels handed to write_sorted_csv
    sort_out,            \* what it wrote
    fin_text,            \* finder: the response text
    fin_usernames,       \* finder: what extract_usernames returned
    fin_csv0,            \* finder: rows of the channel CSV before the call
    fin_csv,             \* finder: rows of the channel CSV
    fin_rows_read,       \* finder: rows load_existing_channels reads before
                         \* an exception ends the reading; all when none does
    fin_counts,          \* finder: what save_channels_to_csv returned
    vid_lines,           \* video: lines of the links file
    vid_links,           \* video: what load_links_from_file returned
    vid_i,               \* video: index of the loop over links
    vid_download,        \* video: how each call of
                         \* download_video_with_ytdlp ended
    vid_attempted,       \* video: urls download_video_with_ytdlp was called
                         \* for
    vid_metadata,        \* video: metadata_list
    vid_saves            \* video: what save_metadata was called with

vars ==
    <<input_file, output_file, store0, max_attempts, pc, processed,
      all_channels, channels_to_process, i, ctl, sa_pc, page, result,
      sessions, presence_checked, probed, opened_for, indefinite,
      definitive, inter_sleeps, written, exc, store_readable, run, store_reads,
      store_writes, opened, attempts, ctl2, seqA, seqB, sort_in, sort_out,
      fin_text, fin_usernames, fin_csv0, fin_csv, fin_rows_read, fin_counts,
      vid_lines, vid_links, vid_i, vid_download, vid_attempted, vid_metadata,
      vid_saves>>

batchVars ==
    <<processed, all_channels, channels_to_process, i, inter_sleeps>>

attemptVars == <<sa_pc, page, result, sessions, presence_checked, opened_for>>

sideVars == <<ctl2, seqA, seqB, sort_in, sort_out>>

fileVars == <<input_file, store0, max_attempts, run, store_readable>>

histVars == <<store_reads, store_writes, opened, attempts>>

finderVars ==
    <<fin_text, fin_usernames, fin_csv0, fin_csv, fin_rows_read, fin_counts>>

videoVars ==
    <<vid_lines, vid_links, vid_i, vid_download, vid_attempted, vid_metadata,
      vid_saves>>

otherVars == <<finderVars, videoVars>>

\* The variables of validate_csv_channels and of the side specifications.
validatorVars ==
    <<fileVars, output_file, batchVars, ctl, attemptVars, probed, indefinite,
      definitive, written, sideVars, histVars>>

\* The finder before extract_usernames is called.
FinderIdle ==
    /\ fin_text = <<>>
    /\ fin_usernames = <<>>
    /\ fin_csv0 = <<>>
    /\ fin_csv = <<>>
    /\ fin_rows_read = 0
    /\ fin_counts = <<0, 0>>

\* The video processor before process_links is called.
VideoIdle ==
    /\ vid_lines = <<>>
    /\ vid_links = <<>>
    /\ vid_i = 0
    /\ vid_download = <<>>
    /\ vid_attempted = <<>>
    /\ vid_metadata = <<>>
    /\ vid_saves = <<>>

StoreRows == [username : StoreUsernames, status : StoreStatuses]

\* Everything but the files and max_attempts, before main() calls
\* validate_csv_channels.
Idle ==
    /\ processed = EmptyDict
    /\ all_channels = <<>>
    /\ channels_to_process = <<>>
    /\ i = 0
    /\ ctl = IdleController
    /\ sa_pc = "idle"
    /\ page = NoPage
    /\ result = NoResult
    /\ sessions = 0
    /\ presence_checked = FALSE
    /\ probed = <<>>
    /\ opened_for = {}
    /\ indefinite = 0
    /\ definitive = 0
    /\ inter_sleeps = 0
    /\ written = FALSE
    /\ exc = ""
    /\ run = 1
    /\ store_reads = 0
    /\ store_writes = 0
    /\ opened = 0
    /\ attempts = 0

Init ==
    /\ input_file \in SeqsUpTo(Usernames, MaxTargets)
    /\ output_file \in SeqsUpTo(StoreRows, MaxStore)
    /\ store0 = output_file
    /\ max_attempts \in (-1)..MaxAttempts
    /\ store_readable \in BOOLEAN
    /\ pc = "start"
    /\ Idle
    /\ ctl2 = IdleController
    /\ seqA = <<>>
    /\ seqB = <<>>
    /\ sort_in = <<>>
    /\ sort_out = <<>>
    /\ FinderIdle
    /\ VideoIdle

(***************************************************************************)
(* validate_csv_channels                                                   *)
(***************************************************************************)
\* lines 205-243: read both files, split the rows; with nothing to process
\* write the report at once.
StartBatch ==
    /\ pc = "start"
    /\ LET channels == read_csv(input_file)
           done == read_existing_results(output_file)
           f == FilterChannels(channels, done)
           w == write_sorted_csv(f.all, output_file)
       IN  IF channels = <<>>
           THEN /\ pc' = "returned"
                /\ UNCHANGED <<output_file, written, exc, batchVars,
                               store_reads, store_writes>>
           ELSE IF open_for_read(store_readable) = "raise"
           THEN /\ pc' = "raised"
                /\ exc' = "read_existing_results"
                /\ store_reads' = store_reads + 1
                /\ UNCHANGED <<output_file, written, batchVars, store_writes>>
           ELSE /\ processed' = done
                /\ store_reads' = store_reads + 1
                /\ all_channels' = f.all
                /\ channels_to_process' = f.to_process
                /\ UNCHANGED inter_sleeps
                /\ IF f.to_process = <<>>
                   THEN /\ output_file' = w.file
                        /\ written' = TRUE
                        /\ store_writes' = store_writes + 1
                        /\ exc' = IF w.raised THEN "ValueError" ELSE ""
                        /\ pc' = IF w.raised THEN "raised" ELSE "returned"
                        /\ i' = i
                   ELSE /\ pc' = "loop"
                        /\ i' = 1
                        /\ UNCHANGED <<output_file, written, exc,
                                       store_writes>>
    /\ UNCHANGED <<fileVars, ctl, attemptVars, probed, indefinite, definitive,
                   sideVars, otherVars, opened, attempts>>

\* lines 248-254: call validate_tiktok_channel for the next channel
CallController ==
    /\ pc = "loop"
    /\ probed' = Append(probed, channels_to_process[i])
    /\ ctl' = NewController
    /\ indefinite' = 0
    /\ definitive' = 0
    /\ opened' = 0
    /\ pc' = "controller"
    /\ UNCHANGED <<fileVars, output_file, batchVars, attemptVars, written,
                   exc, sideVars, otherVars, store_reads, store_writes, attempts>>

\* line 102: the head of the retry loop; line 104 calls the single attempt,
\* lines 131-141 return undefined when the range is used up.
ControllerLoop ==
    /\ pc = "controller"
    /\ IF HasNextAttempt(ctl, max_attempts)
       THEN /\ ctl' = BeginAttempt(ctl)
            /\ pc' = "attempt"
            /\ sa_pc' = "setup"
       ELSE /\ ctl' = Exhausted(ctl, max_attempts)
            /\ pc' = "update"
            /\ sa_pc' = sa_pc
    /\ UNCHANGED <<fileVars, output_file, batchVars, page, result, sessions,
                   presence_checked, opened_for, probed, indefinite,
                   definitive, written, exc, sideVars, otherVars, histVars>>

(***************************************************************************)
(* validate_tiktok_channel_single_attempt                                  *)
(***************************************************************************)
\* line 31: setup_chrome_driver(), outside the try: webdriver.Chrome either
\* returns a session or raises, and the exception leaves every caller.
SetupDriver ==
    /\ pc = "attempt" /\ sa_pc = "setup"
    /\ \/ /\ sessions' = sessions + 1
          /\ opened' = opened + 1
          /\ opened_for' = opened_for \cup {channels_to_process[i]}
          /\ sa_pc' = "get"
          /\ UNCHANGED <<pc, exc>>
       \/ /\ pc' = "raised"
          /\ exc' = "setup_chrome_driver"
          /\ sa_pc' = "idle"
          /\ UNCHANGED <<sessions, opened_for, opened>>
    /\ UNCHANGED <<fileVars, output_file, batchVars, ctl, page, result,
                   presence_checked, probed, indefinite, definitive, written,
                   sideVars, otherVars, store_reads, store_writes, attempts>>

\* line 34: driver.get loads some page or raises (caught at line 85)
DriverGet ==
    /\ pc = "attempt" /\ sa_pc = "get"
    /\ \/ /\ page' \in Pages
          /\ sa_pc' = "rule1"
          /\ UNCHANGED result
       \/ /\ result' = ERROR_RESULT
          /\ sa_pc' = "finally"
          /\ UNCHANGED page
    /\ UNCHANGED <<fileVars, output_file, batchVars, ctl, pc, sessions,
                   presence_checked, opened_for, probed, indefinite, definitive, written,
                   exc, sideVars, otherVars, histVars>>

\* lines 36-55: RULE 1
Rule1 ==
    /\ pc = "attempt" /\ sa_pc = "rule1"
    /\ IF page.absence.kind = "found"
       THEN IF PhraseMatches(page.absence.text)
            THEN /\ result' = INVALID_RESULT(page.absence.text)
                 /\ sa_pc' = "finally"
            ELSE result' = result /\ sa_pc' = "rule2"
       ELSE IF page.absence.kind = "timeout"
            THEN result' = result /\ sa_pc' = "rule2"
            ELSE result' = ERROR_RESULT /\ sa_pc' = "finally"
    /\ UNCHANGED <<fileVars, output_file, batchVars, ctl, pc, page, sessions,
                   presence_checked, opened_for, probed, indefinite, definitive, written,
                   exc, sideVars, otherVars, histVars>>

\* lines 57-83: RULE 2, then "neither rule matched"
Rule2 ==
    /\ pc = "attempt" /\ sa_pc = "rule2"
    /\ presence_checked' = TRUE
    /\ result' = Rule2Result(page.presence)
    /\ sa_pc' = "finally"
    /\ UNCHANGED <<fileVars, output_file, batchVars, ctl, pc, page, sessions,
                   opened_for, probed, indefinite, definitive, written, exc, sideVars, otherVars, histVars>>

\* lines 93-94: finally driver.quit(), after which the page is gone; when
\* quit raises, its exception replaces the return value and the session may
\* or may not be gone.
DriverQuit ==
    /\ pc = "attempt" /\ sa_pc = "finally"
    /\ sa_pc' = "idle"
    /\ page' = NoPage
    /\ presence_checked' = FALSE
    /\ \/ /\ sessions' = driver_quit(sessions)
          /\ pc' = "after_attempt"
          /\ IF result.rule_matched \in {"VALID_RULE", "INVALID_RULE"}
             THEN definitive' = definitive + 1 /\ indefinite' = indefinite
             ELSE indefinite' = indefinite + 1 /\ definitive' = definitive
          /\ UNCHANGED <<exc, result>>
       \/ /\ sessions' \in {sessions, driver_quit(sessions)}
          /\ pc' = "raised"
          /\ exc' = "driver.quit"
          /\ result' = NoResult
          /\ UNCHANGED <<indefinite, definitive>>
    /\ UNCHANGED <<fileVars, output_file, batchVars, ctl, opened_for, probed,
                   written, sideVars, otherVars, histVars>>

\* lines 105-129: back in validate_tiktok_channel with the result
AttemptReturn ==
    /\ pc = "after_attempt"
    /\ ctl' = AfterAttempt(ctl, max_attempts, result)
    /\ pc' = IF ctl'.state = "RESOLVED_DEFINITIVE" THEN "update"
             ELSE "controller"
    /\ result' = NoResult
    /\ UNCHANGED <<fileVars, output_file, batchVars, sa_pc, page, sessions,
                   presence_checked, opened_for, probed, indefinite, definitive, written,
                   exc, sideVars, otherVars, histVars>>

\* lines 256-264: record the status, pause before the next channel
UpdateChannel ==
    /\ pc = "update"
    /\ all_channels' =
           UpdateStatus(all_channels, channels_to_process[i], ctl.status)
    /\ inter_sleeps' = PauseAfter(i, Len(channels_to_process), inter_sleeps)
    /\ i' = i + 1
    /\ pc' = IF i < Len(channels_to_process) THEN "loop" ELSE "write"
    /\ output_file' = StoreDuringBatch(output_file, all_channels')
    /\ UNCHANGED <<fileVars, processed, channels_to_process,
                   ctl, attemptVars, probed, indefinite, definitive, written, exc,
                   sideVars, otherVars, histVars>>

\* lines 266-304: the summary and the report
WriteResults ==
    /\ pc = "write"
    /\ LET w == write_sorted_csv(all_channels, output_file)
       IN  /\ output_file' = w.file
           /\ exc' = IF w.raised THEN "ValueError" ELSE ""
           /\ pc' = IF w.raised THEN "raised" ELSE "returned"
    /\ written' = TRUE
    /\ store_writes' = store_writes + 1
    /\ UNCHANGED <<fileVars, batchVars, ctl, attemptVars, probed, indefinite,
                   definitive, sideVars, otherVars, store_reads, opened, attempts>>

\* lines 339-341, run again: main() is called with the same arguments after
\* a run that returned; the output file is what that run left.
Rerun ==
    /\ pc = "returned"
    /\ run < MaxRuns
    /\ run' = run + 1
    /\ store0' = output_file
    /\ pc' = "start"
    /\ processed' = EmptyDict
    /\ all_channels' = <<>>
    /\ channels_to_process' = <<>>
    /\ i' = 0
    /\ ctl' = IdleController
    /\ probed' = <<>>
    /\ opened_for' = {}
    /\ indefinite' = 0
    /\ definitive' = 0
    /\ inter_sleeps' = 0
    /\ written' = FALSE
    /\ store_reads' = 0
    /\ store_writes' = 0
    /\ opened' = 0
    /\ attempts' = 0
    /\ UNCHANGED <<input_file, output_file, max_attempts, store_readable,
                   sa_pc, page, result, sessions, presence_checked, exc,
                   sideVars, otherVars>>

\* lines 344-345: the exit status of the process, 1 when an exception left
\* main() and 0 when main() returned
ExitStatus == IF pc = "raised" THEN 1 ELSE 0

Next ==
    \/ StartBatch
    \/ CallController
    \/ ControllerLoop
    \/ SetupDriver
    \/ DriverGet
    \/ Rule1
    \/ Rule2
    \/ DriverQuit
    \/ AttemptReturn
    \/ UpdateChannel
    \/ WriteResults
    \/ Rerun

Spec == Init /\ [][Next]_vars

(***************************************************************************)
(* Two calls of validate_tiktok_channel side by side, each given its own   *)
(* list of attempt results: ctl reads seqA, ctl2 reads seqB.               *)
(***************************************************************************)
Results ==
    {INVALID_RESULT(t) : t \in {TextNotFound, TextNotFoundUpper}}
        \cup {VALID_RESULT(t) : t \in Titles}
        \cup {NO_MATCH_RESULT, ERROR_RESULT}

\* The two lists differ only by NONE in place of ERROR or ERROR in place of
\* NONE.
SameUpToFault(a, b) ==
    /\ Len(a) = Len(b)
    /\ \A k \in DOMAIN a :
          \/ a[k] = b[k]
          \/ {a[k], b[k]} = {NO_MATCH_RESULT, ERROR_RESULT}

\* One iteration of the loop of validate_tiktok_channel (lines 102-141),
\* the single attempt answering with seq[attempt].
Iterate(c, max, seq) ==
    IF c.state # "ATTEMPTING" THEN c
    ELSE IF HasNextAttempt(c, max)
         THEN AfterAttempt(BeginAttempt(c), max, seq[c.attempt])
         ELSE Exhausted(c, max)

PairInit ==
    /\ input_file = <<>>
    /\ output_file = <<>>
    /\ store0 = <<>>
    /\ max_attempts \in (-1)..MaxPairAttempts
    /\ store_readable = TRUE
    /\ pc = "pair"
    /\ Idle
    /\ ctl2 = IdleController
    /\ seqA \in [1..MaxPairAttempts -> Results]
    /\ seqB \in [1..MaxPairAttempts -> Results]
    /\ SameUpToFault(seqA, seqB)
    /\ sort_in = <<>>
    /\ sort_out = <<>>
    /\ FinderIdle
    /\ VideoIdle

PairCall ==
    /\ pc = "pair"
    /\ ctl.state = "IDLE"
    /\ ctl' = NewController
    /\ ctl2' = NewController
    /\ UNCHANGED <<fileVars, output_file, pc, batchVars, attemptVars, probed,
                   indefinite, definitive, written, exc, seqA, seqB,
                   sort_in, sort_out, histVars, otherVars>>

PairStep ==
    /\ pc = "pair"
    /\ "ATTEMPTING" \in {ctl.state, ctl2.state}
    /\ ctl' = Iterate(ctl, max_attempts, seqA)
    /\ ctl2' = Iterate(ctl2, max_attempts, seqB)
    /\ UNCHANGED <<fileVars, output_file, pc, batchVars, attemptVars, probed,
                   indefinite, definitive, written, exc, seqA, seqB,
                   sort_in, sort_out, histVars, otherVars>>

PairNext == PairCall \/ PairStep

PairSpec == PairInit /\ [][PairNext]_vars

(***************************************************************************)
(* validate_csv_channels with each single attempt taken as one step: the   *)
(* attempt returns one of its results, or setup_chrome_driver or           *)
(* driver.quit raises.                                                     *)
(***************************************************************************)
\* The output file before the run: missing or empty, or one row.
LiveStores == {<<>>} \cup {<<Row(u, "valid")>> : u \in StoreUsernames}

LiveInit ==
    /\ input_file \in SeqsUpTo(Usernames, MaxTargets)
    /\ output_file \in LiveStores
    /\ store0 = output_file
    /\ max_attempts \in (-1)..MaxAttempts
    /\ store_readable \in BOOLEAN
    /\ pc = "start"
    /\ Idle
    /\ ctl2 = IdleController
    /\ seqA = <<>>
    /\ seqB = <<>>
    /\ sort_in = <<>>
    /\ sort_out = <<>>
    /\ FinderIdle
    /\ VideoIdle

\* lines 102-141: one iteration of the retry loop, or its end
LiveAttempt ==
    /\ pc = "controller"
    /\ IF HasNextAttempt(ctl, max_attempts)
       THEN /\ attempts' = attempts + 1
            /\ \/ \E res \in Results :
                     /\ ctl' = AfterAttempt(BeginAttempt(ctl), max_attempts,
                                            res)
                     /\ pc' = IF ctl'.state = "RESOLVED_DEFINITIVE"
                              THEN "update" ELSE "controller"
                     /\ exc' = exc
               \/ /\ ctl' = BeginAttempt(ctl)
                  /\ pc' = "raised"
                  /\ exc' \in {"setup_chrome_driver", "driver.quit"}
       ELSE /\ ctl' = Exhausted(ctl, max_attempts)
            /\ pc' = "update"
            /\ UNCHANGED <<attempts, exc>>
    /\ UNCHANGED <<fileVars, output_file, batchVars, attemptVars, probed,
                   indefinite, definitive, written, sideVars, otherVars, store_reads,
                   store_writes, opened>>

LiveNext ==
    \/ StartBatch
    \/ CallController
    \/ LiveAttempt
    \/ UpdateChannel
    \/ WriteResults

\* The program is sequential and waits for nothing but its own calls: a
\* step that can be taken is taken.
LiveSpec == LiveInit /\ [][LiveNext]_vars /\ WF_vars(LiveNext)

(***************************************************************************)
(* write_sorted_csv on its own, for any list of rows that carry a status.  *)
(***************************************************************************)
SortInit ==
    /\ input_file = <<>>
    /\ output_file = <<>>
    /\ store0 = <<>>
    /\ max_attempts = 1
    /\ store_readable = TRUE
    /\ pc = "sort"
    /\ Idle
    /\ ctl2 = IdleController
    /\ seqA = <<>>
    /\ seqB = <<>>
    /\ sort_in \in SeqsUpTo(StoreRows, MaxSortLen)
    /\ sort_out = <<>>
    /\ FinderIdle
    /\ VideoIdle

SortWrite ==
    /\ pc = "sort"
    /\ sort_out' = write_sorted_csv(sort_in, <<>>).file
    /\ pc' = "sorted"
    /\ UNCHANGED <<fileVars, output_file, batchVars, ctl, attemptVars, probed,
                   indefinite, definitive, written, exc, ctl2, seqA, seqB,
                   sort_in, histVars, otherVars>>

SortNext == SortWrite

SortSpec == SortInit /\ [][SortNext]_vars

(***************************************************************************)
(* tiktok_channel_finder.py: extract_usernames, then save_channels_to_csv. *)
(***************************************************************************)
\* Characters of the response text: "@", a letter in both cases, a space.
TextAlphabet == {"@", "b", "B", " "}

\* The characters of [a-zA-Z0-9._] among them.
NameChars == {"b", "B"}

\* The end of the longest run of name characters that starts at q.
RunEnd(text, q) ==
    CHOOSE e \in q..Len(text) :
        /\ \A k \in q..e : text[k] \in NameChars
        /\ e = Len(text) \/ text[e + 1] \notin NameChars

\* re.findall(r"@([a-zA-Z0-9._]+)", text) from position p on
RECURSIVE FindAll(_, _, _)
FindAll(text, p, found) ==
    IF p > Len(text) THEN found
    ELSE IF text[p] = "@" /\ p < Len(text) /\ text[p + 1] \in NameChars
         THEN LET e == RunEnd(text, p + 1)
              IN  FindAll(text, e + 1,
                          Append(found, SubSeq(text, p + 1, e)))
         ELSE FindAll(text, p + 1, found)

\* lines 83-88: remove duplicates while preserving order
RECURSIVE UniqueFrom(_, _)
UniqueFrom(usernames, unique_usernames) ==
    IF usernames = <<>> THEN unique_usernames
    ELSE IF \E k \in DOMAIN unique_usernames :
                unique_usernames[k] = Head(usernames)
         THEN UniqueFrom(Tail(usernames), unique_usernames)
         ELSE UniqueFrom(Tail(usernames),
                         Append(unique_usernames, Head(usernames)))

extract_usernames(response_text) ==
    UniqueFrom(FindAll(response_text, 1, <<>>), <<>>)

\* f"https://www.tiktok.com/@{username}"
ProfileUrl(username) == <<"https://www.tiktok.com/@">> \o username

\* A row of the channel CSV written by an earlier run.
OldRow(username) ==
    [username |-> username, profile_url |-> ProfileUrl(username),
     first_found |-> "t0", last_updated |-> "t0", search_run |-> "run0",
     keywords |-> <<"cats">>, country |-> <<"VN">>]

\* lines 162-172: a new channel, found now
NewRow(username, keywords, country) ==
    [username |-> username, profile_url |-> ProfileUrl(username),
     first_found |-> "t1", last_updated |-> "t1", search_run |-> "run1",
     keywords |-> keywords, country |-> country]

FinderStoreUsernames == {<<"b">>, <<"B">>, <<"c">>}

FinderStoreRows == {OldRow(u) : u \in FinderStoreUsernames}

\* --keywords, and the default of save_channels_to_csv
SearchKeywords == {<<>>, <<"pets">>}

\* A dict is the sequence of its items [key, value] in insertion order.
DictHas(dict, key) == \E k \in DOMAIN dict : dict[k].key = key

DictIndex(dict, key) == CHOOSE k \in DOMAIN dict : dict[k].key = key

\* dict[key] = value: a new key is appended, an old key keeps its place
DictSet(dict, key, value) ==
    IF DictHas(dict, key)
    THEN [dict EXCEPT ![DictIndex(dict, key)].value = value]
    ELSE Append(dict, [key |-> key, value |-> value])

\* list(dict.values())
DictValues(dict) == [k \in DOMAIN dict |-> dict[k].value]

\* lines 101-102: the rows read, keyed by the lower-case username
RECURSIVE LoadRows(_, _)
LoadRows(rows, existing_channels) ==
    IF rows = <<>> THEN existing_channels
    ELSE LoadRows(Tail(rows),
                  DictSet(existing_channels, Lower(Head(rows).username),
                          Head(rows)))

\* lines 93-106: the except of line 103 keeps what was read before the
\* exception, rows_read rows of the file.
load_existing_channels(file, rows_read) ==
    LoadRows(SubSeq(file, 1, rows_read), <<>>)

\* lines 109-130; ", " joins the parts
update_channel_data(existing_row, new_keywords, new_country) ==
    LET existing_keywords == existing_row.keywords
        existing_countries == existing_row.country
        combined_keywords ==
            IF existing_keywords # <<>> /\ new_keywords # <<>>
            THEN existing_keywords \o <<", ">> \o new_keywords
            ELSE IF new_keywords # <<>> THEN new_keywords
                 ELSE existing_keywords
        combined_countries ==
            IF existing_countries # <<>>
                   /\ ~Contains(existing_countries, new_country)
            THEN existing_countries \o <<", ">> \o new_country
            ELSE IF new_country # <<>> THEN new_country
                 ELSE existing_countries
    IN  [existing_row EXCEPT !.keywords = combined_keywords,
                             !.country = combined_countries,
                             !.last_updated = "t1"]

\* lines 153-172: the loop over usernames.  update_channel_data changes the
\* row held by existing_channels; updated_channels holds that same row, so
\* it is kept as the list of keys.
RECURSIVE SaveLoop(_, _, _, _, _, _)
SaveLoop(usernames, existing_channels, new_channels, updated_channels, keywords, country) ==
    IF usernames = <<>>
    THEN [existing_channels |-> existing_channels,
          new_channels |-> new_channels,
          updated_channels |-> updated_channels]
    ELSE LET username == Head(usernames)
             key == Lower(username)
         IN  IF DictHas(existing_channels, key)
             THEN SaveLoop(Tail(usernames),
                           DictSet(existing_channels, key,
                               update_channel_data(
                                   existing_channels[
                                       DictIndex(existing_channels, key)
                                   ].value, keywords, country)),
                           new_channels, Append(updated_channels, key),
                           keywords, country)
             ELSE SaveLoop(Tail(usernames), existing_channels,
                           Append(new_channels,
                                  NewRow(username, keywords, country)),
                           updated_channels, keywords, country)

\* lines 178-182: put each updated row in the place of the first row with
\* its username, compared in lower case
RECURSIVE ReplaceUpdated(_, _, _)
ReplaceUpdated(all_rows, updated_channels, existing_channels) ==
    IF updated_channels = <<>> THEN all_rows
    ELSE LET updated ==
                 existing_channels[
                     DictIndex(existing_channels, Head(updated_channels))
                 ].value
             hit == {k \in DOMAIN all_rows :
                        Lower(all_rows[k].username) = Lower(updated.username)}
             first == CHOOSE k \in hit : \A m \in hit : k <= m
         IN  ReplaceUpdated(
                 IF hit = {} THEN all_rows
                 ELSE [all_rows EXCEPT ![first] = updated],
                 Tail(updated_channels), existing_channels)

\* lines 133-213: [file |-> the rows of the CSV after the call,
\* counts |-> the pair returned]
save_channels_to_csv(usernames, file, rows_read, search_keywords, country) ==
    LET keywords_to_save ==
            IF search_keywords # <<>> THEN search_keywords
            ELSE <<"general_search">>
        loop == SaveLoop(usernames, load_existing_channels(file, rows_read),
                         <<>>, <<>>, keywords_to_save, country)
        all_rows ==
            ReplaceUpdated(
                DictValues(loop.existing_channels) \o loop.new_channels,
                loop.updated_channels, loop.existing_channels)
    IN  [file |-> IF all_rows # <<>> THEN all_rows ELSE file,
         counts |-> <<Len(loop.new_channels), Len(loop.updated_channels)>>]

\* The channel CSV before the call: no username twice in the same spelling,
\* which save_channels_to_csv after extract_usernames never writes.
FinderStores ==
    {file \in SeqsUpTo(FinderStoreRows, MaxFinderStore) :
        \A j, k \in DOMAIN file :
            file[j].username = file[k].username => j = k}

FinderInit ==
    /\ input_file = <<>>
    /\ output_file = <<>>
    /\ store0 = <<>>
    /\ max_attempts = 1
    /\ store_readable = TRUE
    /\ pc = "finder"
    /\ Idle
    /\ ctl2 = IdleController
    /\ seqA = <<>>
    /\ seqB = <<>>
    /\ sort_in = <<>>
    /\ sort_out = <<>>
    /\ fin_text \in SeqsUpTo(TextAlphabet, MaxTextLen)
    /\ fin_usernames = <<>>
    /\ fin_csv \in FinderStores
    /\ fin_csv0 = fin_csv
    /\ fin_rows_read \in 0..Len(fin_csv)
    /\ fin_counts = <<0, 0>>
    /\ VideoIdle

\* line 264
FinderExtract ==
    /\ pc = "finder"
    /\ fin_usernames' = extract_usernames(fin_text)
    /\ pc' = "extracted"
    /\ UNCHANGED <<validatorVars, exc, videoVars, fin_text, fin_csv0, fin_csv,
                   fin_rows_read, fin_counts>>

\* lines 272-274
FinderSave ==
    /\ pc = "extracted"
    /\ \E search_keywords \in SearchKeywords :
          LET saved == save_channels_to_csv(fin_usernames, fin_csv,
                                           fin_rows_read, search_keywords,
                                           <<"US">>)
          IN  /\ fin_csv' = saved.file
              /\ fin_counts' = saved.counts
    /\ pc' = "saved"
    /\ UNCHANGED <<validatorVars, exc, videoVars, fin_text, fin_csv0,
                   fin_usernames, fin_rows_read>>

FinderNext == FinderExtract \/ FinderSave

FinderSpec == FinderInit /\ [][FinderNext]_vars

(***************************************************************************)
(* video_processor.py: process_links.                                      *)
(***************************************************************************)
\* Lines of the links file: two urls, a comment, an url and a comment after
\* a space, a blank line.
LinkLines ==
    {<<"u">>, <<"v">>, <<"#", "u">>, <<" ", "u">>, <<" ", "#">>, <<" ">>}

\* str.strip()
RECURSIVE Strip(_)
Strip(line) ==
    IF line = <<>> THEN line
    ELSE IF Head(line) = " " THEN Strip(Tail(line))
    ELSE IF line[Len(line)] = " " THEN Strip(SubSeq(line, 1, Len(line) - 1))
    ELSE line

\* lines 24-27: the stripped lines that are not blank and do not start
\* with "#" before stripping
RECURSIVE load_links_from_file(_)
load_links_from_file(lines) ==
    IF lines = <<>> THEN <<>>
    ELSE LET line == Head(lines)
             rest == load_links_from_file(Tail(lines))
         IN  IF Strip(line) # <<>> /\ Head(line) # "#"
             THEN <<Strip(line)>> \o rest
             ELSE rest

\* How a call of download_video_with_ytdlp ends: it returns success True,
\* it returns success False (lines 53-57, 66-70, 100-104), or Path.mkdir of
\* line 46, which is outside the try, raises.
DownloadOutcomes == {"success", "failure", "raise"}

\* video_summary of what analyze_video_with_gemini returns: the parsed
\* answer, or the record of lines 203-222.
AnalysisOutcomes == {"analysis", "Analysis not available"}

VideoInit ==
    /\ input_file = <<>>
    /\ output_file = <<>>
    /\ store0 = <<>>
    /\ max_attempts = 1
    /\ store_readable = TRUE
    /\ pc = "links"
    /\ Idle
    /\ ctl2 = IdleController
    /\ seqA = <<>>
    /\ seqB = <<>>
    /\ sort_in = <<>>
    /\ sort_out = <<>>
    /\ FinderIdle
    /\ vid_lines \in SeqsUpTo(LinkLines, MaxLinkLines)
    /\ vid_links = <<>>
    /\ vid_i = 0
    /\ vid_download = <<>>
    /\ vid_attempted = <<>>
    /\ vid_metadata = <<>>
    /\ vid_saves = <<>>

\* lines 269-276
VideoLoad ==
    /\ pc = "links"
    /\ vid_links' = load_links_from_file(vid_lines)
    /\ pc' = IF vid_links' = <<>> THEN "done" ELSE "download"
    /\ vid_i' = IF vid_links' = <<>> THEN vid_i ELSE 1
    /\ UNCHANGED <<validatorVars, exc, finderVars, vid_lines, vid_download,
                   vid_attempted, vid_metadata, vid_saves>>

\* lines 278-284 and 302-305: download the next link
VideoDownload ==
    /\ pc = "download"
    /\ vid_attempted' = Append(vid_attempted, vid_links[vid_i])
    /\ \E outcome \in DownloadOutcomes :
          /\ vid_download' = Append(vid_download, outcome)
          /\ CASE outcome = "success" ->
                    /\ pc' = "analyze"
                    /\ UNCHANGED <<vid_i, exc>>
               [] outcome = "failure" ->
                    /\ pc' = IF vid_i < Len(vid_links) THEN "download"
                             ELSE "save"
                    /\ vid_i' = vid_i + 1
                    /\ exc' = exc
               [] OTHER ->
                    /\ pc' = "raised"
                    /\ exc' = "Path.mkdir"
                    /\ vid_i' = vid_i
    /\ UNCHANGED <<validatorVars, finderVars, vid_lines, vid_links,
                   vid_metadata, vid_saves>>

\* lines 285-300: analyze the video and append its metadata
VideoAnalyze ==
    /\ pc = "analyze"
    /\ \E video_summary \in AnalysisOutcomes :
          vid_metadata' =
              Append(vid_metadata,
                     [video_url |-> vid_links[vid_i],
                      analysis |-> video_summary])
    /\ pc' = IF vid_i < Len(vid_links) THEN "download" ELSE "save"
    /\ vid_i' = vid_i + 1
    /\ UNCHANGED <<validatorVars, exc, finderVars, vid_lines, vid_links,
                   vid_download, vid_attempted, vid_saves>>

\* lines 307-311 and 225-232: save_metadata writes the list or prints the
\* error of the write
VideoSave ==
    /\ pc = "save"
    /\ \E ok \in BOOLEAN :
          vid_saves' = Append(vid_saves,
                              [metadata_list |-> vid_metadata,
                               written |-> ok])
    /\ pc' = "done"
    /\ UNCHANGED <<validatorVars, exc, finderVars, vid_lines, vid_links,
                   vid_i, vid_download, vid_attempted, vid_metadata>>

VideoNext == VideoLoad \/ VideoDownload \/ VideoAnalyze \/ VideoSave

VideoSpec == VideoInit /\ [][VideoNext]_vars

(***************************************************************************)
(* Properties.                                                             *)
(***************************************************************************)
Range(f) == {f[k] : k \in DOMAIN f}

Terminal(c) == c.state \in {"RESOLVED_DEFINITIVE", "RESOLVED_UNDEFINED"}

\* The file holds a row for u with a non-empty status.
HasStored(file, u) ==
    \E j \in DOMAIN file : file[j].username = u /\ file[j].status # ""

\* The status of the last such row.
LastStored(file, u) ==
    LET j == CHOOSE k \in DOMAIN file :
                 /\ file[k].username = u /\ file[k].status # ""
                 /\ \A m \in (k + 1)..Len(file) :
                        ~(file[m].username = u /\ file[m].status # "")
    IN  file[j].status

\* C1: with max_attempts >= 1, at most one attempt of a call returns a
\* definitive result; once it has, the call is in RESOLVED_DEFINITIVE as
\* soon as the result is looked at; and a call in RESOLVED_DEFINITIVE has
\* made exactly k attempts, k - 1 indefinite ones and then the definitive
\* one, however many attempts remain, and makes no more.
C1_EarlyExit ==
    max_attempts >= 1 =>
        /\ definitive <= 1
        /\ definitive = 1 =>
              \/ pc = "after_attempt"
              \/ ctl.state = "RESOLVED_DEFINITIVE"
        /\ ctl.state = "RESOLVED_DEFINITIVE" =>
              /\ definitive = 1
              /\ ctl.calls = indefinite + 1
              /\ ctl.calls <= max_attempts

C1_Witness ==
    /\ ctl.state = "RESOLVED_DEFINITIVE"
    /\ ctl.calls = 1
    /\ max_attempts = 2
    /\ pc = "returned"

\* C2 as stated: when the first max_attempts - 1 attempts are indefinite,
\* the call makes exactly max_attempts attempts and ends in
\* RESOLVED_UNDEFINED.
C2_AsStated ==
    (max_attempts >= 1 /\ Terminal(ctl) /\ indefinite >= max_attempts - 1) =>
        /\ ctl.calls = max_attempts
        /\ ctl.state = "RESOLVED_UNDEFINED"

\* C2: with max_attempts >= 1 a call never makes more than max_attempts
\* attempts; when the first max_attempts - 1 attempts are indefinite it
\* makes exactly max_attempts; it ends in RESOLVED_UNDEFINED with status
\* undefined when the last attempt is indefinite too, and in
\* RESOLVED_DEFINITIVE when the last attempt is definitive.
C2_BoundedRetries ==
    max_attempts >= 1 =>
        /\ ctl.calls <= max_attempts
        /\ indefinite <= max_attempts
        /\ (Terminal(ctl) /\ indefinite >= max_attempts - 1) =>
              ctl.calls = max_attempts
        /\ (Terminal(ctl) /\ indefinite = max_attempts) =>
              ctl.state = "RESOLVED_UNDEFINED" /\ ctl.status = "undefined"
        /\ (Terminal(ctl) /\ definitive = 1) =>
              ctl.state = "RESOLVED_DEFINITIVE"

C2_Witness ==
    /\ ctl.state = "RESOLVED_UNDEFINED"
    /\ max_attempts = 2
    /\ ctl.calls = 2
    /\ indefinite = 2

\* C3: a username of the input that the output file held with a non-empty
\* status before the run is never passed to validate_tiktok_channel, no
\* session is opened for it, and once the report is written its rows carry
\* the stored status.
C3_IdempotentSkip ==
    \A k \in DOMAIN input_file :
        LET X == input_file[k]
        IN  HasStored(store0, X) =>
                /\ X \notin Range(probed)
                /\ X \notin opened_for
                /\ written =>
                      /\ \E j \in DOMAIN output_file :
                            output_file[j].username = X
                      /\ \A j \in DOMAIN output_file :
                            output_file[j].username = X =>
                                output_file[j].status = LastStored(store0, X)

C3_Witness ==
    /\ pc = "returned"
    /\ written
    /\ input_file = << <<"x">>, <<"X">> >>
    /\ store0 = <<Row(<<"x">>, "undefined")>>
    /\ probed = << <<"X">> >>
    /\ output_file = <<Row(<<"X">>, "valid"), Row(<<"x">>, "undefined")>>

\* C4: when the error container was found and its text contains the phrase
\* in some letter case, the attempt returns INVALID_RULE and RULE 2 has not
\* waited, whatever the page holds for the user title.
C4_AbsencePriority ==
    (/\ pc = "attempt" /\ sa_pc = "finally"
     /\ page.absence.kind = "found"
     /\ Contains(Lower(page.absence.text), Lower(AbsencePhrase))) =>
        /\ result = INVALID_RESULT(page.absence.text)
        /\ ~presence_checked

C4_Witness ==
    /\ pc = "attempt" /\ sa_pc = "finally"
    /\ page.absence.kind = "found"
    /\ page.absence.text = TextNotFoundUpper
    /\ page.presence.kind = "found"
    /\ result.rule_matched = "INVALID_RULE"

\* C5: no exception raised during an attempt leaves
\* validate_tiktok_channel_single_attempt.
C5_NoExceptionEscapes == exc \notin {"setup_chrome_driver", "driver.quit"}

\* C6: a session is open only inside an attempt, one at most; whenever the
\* single attempt has returned, and when setup_chrome_driver raised, no
\* session is open.
C6_NoSessionLeak ==
    /\ sessions \in {0, 1}
    /\ (pc # "attempt" /\ exc # "driver.quit") => sessions = 0
    /\ (pc = "attempt" /\ sa_pc = "setup") => sessions = 0

C6_Witness ==
    /\ pc = "after_attempt"
    /\ result = ERROR_RESULT
    /\ channels_to_process[i] \in opened_for
    /\ sessions = 0

\* C7: once the report is written, every username the output file held
\* with a non-empty status before the run is still in it with that status.
C7_PriorResolutionsSurvive ==
    (written /\ pc = "returned") =>
        \A u \in StoreUsernames :
            HasStored(store0, u) =>
                \E j \in DOMAIN output_file :
                    /\ output_file[j].username = u
                    /\ output_file[j].status = LastStored(store0, u)

\* C8: write_sorted_csv writes as many rows as it was given; the rows of
\* each status are the rows of that status it was given, in the order
\* given; and no undefined row precedes a valid one, no invalid row a
\* valid or undefined one.
C8_SortedStable ==
    pc = "sorted" =>
        /\ Len(sort_out) = Len(sort_in)
        /\ \A st \in StoreStatuses :
              SelectSeq(sort_out, LAMBDA r : r.status = st)
                  = SelectSeq(sort_in, LAMBDA r : r.status = st)
        /\ \A a, b \in DOMAIN sort_out :
              a < b =>
                  <<sort_out[a].status, sort_out[b].status>> \notin
                      {<<"undefined", "valid">>, <<"invalid", "valid">>,
                       <<"invalid", "undefined">>}

C8_Witness ==
    /\ pc = "sorted"
    /\ sort_in = <<Row(<<"x">>, "invalid"), Row(<<"x">>, "valid"),
                   Row(<<"y">>, "undefined"), Row(<<"y">>, "valid")>>
    /\ sort_out = <<Row(<<"x">>, "valid"), Row(<<"y">>, "valid"),
                    Row(<<"y">>, "undefined"), Row(<<"x">>, "invalid")>>

\* C9: a username of the input that differs only in letter case from a
\* username the output file held with a non-empty status is never passed
\* to validate_tiktok_channel.
C9_CaseInsensitiveSkip ==
    \A k \in DOMAIN input_file :
        (\E j \in DOMAIN store0 :
            /\ Lower(store0[j].username) = Lower(input_file[k])
            /\ store0[j].status # "") =>
            input_file[k] \notin Range(probed)

\* C10: two calls whose attempt results differ only by NONE in place of
\* ERROR agree at every step on the attempts made, the sleeps taken, the
\* state and the status; a call that is still attempting has made one
\* attempt for every result it was given, ERROR included.
C10_FaultedLikeIndefinite ==
    pc = "pair" =>
        /\ ctl = ctl2
        /\ ctl.state = "ATTEMPTING" =>
              /\ ctl.calls = ctl.attempt - 1
              /\ \A k \in 1..ctl.calls :
                    seqA[k].rule_matched \in {"NONE", "ERROR"}

C10_Witness ==
    /\ pc = "pair"
    /\ max_attempts = 2
    /\ seqA = <<ERROR_RESULT, VALID_RESULT(TitleBob), NO_MATCH_RESULT>>
    /\ seqB = <<NO_MATCH_RESULT, VALID_RESULT(TitleBob), NO_MATCH_RESULT>>
    /\ ctl.state = "RESOLVED_DEFINITIVE"
    /\ ctl.calls = 2
    /\ ctl.sleeps = 1
    /\ ctl.status = "valid"

\* The index of the first definitive result among the first max of seq,
\* 0 when there is none.
FirstDefinitive(seq, max) ==
    LET D == {k \in DOMAIN seq :
                 /\ k <= max
                 /\ seq[k].rule_matched \in {"VALID_RULE", "INVALID_RULE"}}
    IN  IF D = {} THEN 0 ELSE CHOOSE k \in D : \A m \in D : k <= m

\* C11: a call that has returned has status valid exactly when the first
\* definitive result within max_attempts is VALID_RULE, and then its
\* message contains the title that attempt read and it made as many
\* attempts as that result's index; invalid exactly when that result is
\* INVALID_RULE; undefined exactly when no result within max_attempts is
\* definitive.
C11_StatusFromFirstDefinitive ==
    (pc = "pair" /\ Terminal(ctl)) =>
        LET k == FirstDefinitive(seqA, max_attempts)
        IN  /\ ctl.status = "valid" <=>
                  (k # 0 /\ seqA[k].rule_matched = "VALID_RULE")
            /\ ctl.status = "invalid" <=>
                  (k # 0 /\ seqA[k].rule_matched = "INVALID_RULE")
            /\ ctl.status = "undefined" <=> k = 0
            /\ ctl.status = "valid" =>
                  /\ ctl.calls = k
                  /\ \E t \in Titles :
                        /\ seqA[k] = VALID_RESULT(t)
                        /\ Contains(ctl.message, t)

C11_Witness ==
    /\ pc = "pair"
    /\ max_attempts = 3
    /\ seqA = <<ERROR_RESULT, NO_MATCH_RESULT, VALID_RESULT(TitleAcctOne)>>
    /\ ctl.state = "RESOLVED_DEFINITIVE"
    /\ ctl.status = "valid"
    /\ ctl.calls = 3
    /\ Contains(ctl.message, TitleAcctOne)

\* No two rows of the input carry the same username.
UniqueIdentifiers(rows) ==
    \A j, k \in DOMAIN rows : rows[j] = rows[k] => j = k

\* C12: when the input has no username twice, a second run over the same
\* input and the output file the first run left calls
\* validate_tiktok_channel for no username, opens no session, does not
\* raise, and leaves the output file with the rows, statuses and order the
\* first run left; with a non-empty input it does so by writing the file.
C12_IdempotentRerun ==
    (run = 2 /\ UniqueIdentifiers(input_file)) =>
        /\ probed = <<>>
        /\ opened_for = {}
        /\ ctl = IdleController
        /\ pc \in {"start", "returned"}
        /\ output_file = store0
        /\ (pc = "returned" /\ input_file # <<>>) => written /\ store_writes = 1

C12_Witness ==
    /\ run = 2
    /\ pc = "returned"
    /\ written
    /\ input_file = << <<"x">>, <<"X">> >>
    /\ Len(output_file) = 2
    /\ \E j \in DOMAIN output_file : output_file[j].status = "undefined"
    /\ \E j \in DOMAIN output_file : output_file[j].status = "valid"

\* C13: a run calls read_existing_results at most once, and has called it
\* once before validate_tiktok_channel is called for the first username; it
\* opens the output file for writing at most once, and only when every
\* username it had to validate has a status in the rows; until then the
\* output file holds what it held before the run, also when an exception
\* has ended the run.
C13_ReadOnceWriteOnce ==
    /\ store_reads \in {0, 1}
    /\ store_writes \in {0, 1}
    /\ probed # <<>> => store_reads = 1
    /\ store_writes = 0 => output_file = store0
    /\ exc \in {"setup_chrome_driver", "driver.quit"} => store_writes = 0
    /\ store_writes = 1 =>
          /\ store_reads = 1
          /\ pc \in {"returned", "raised"}
          /\ Len(probed) = Len(channels_to_process)
          /\ \A k \in DOMAIN channels_to_process :
                \E j \in DOMAIN all_channels :
                    /\ all_channels[j].username = channels_to_process[k]
                    /\ all_channels[j].status \in Statuses

C13_Witness ==
    /\ pc = "raised"
    /\ exc = "driver.quit"
    /\ Len(probed) = 2
    /\ store0 # <<>>
    /\ output_file = store0
    /\ store_reads = 1
    /\ store_writes = 0
    /\ \E j \in DOMAIN all_channels : all_channels[j].status = "valid"

\* C14: with an empty input, a run that has ended has called
\* validate_tiktok_channel for no username, has not written the output
\* file, and the process exits with a non-zero status.
C14_EmptyInputFails ==
    (input_file = <<>> /\ pc \in {"returned", "raised"}) =>
        /\ probed = <<>>
        /\ ~written
        /\ ExitStatus # 0

\* C15: a call of validate_tiktok_channel that has returned has made at
\* least one attempt, whatever max_attempts is.
C15_AtLeastOneAttempt == Terminal(ctl) => ctl.calls >= 1

\* The attempt the call is in: at the head of the loop the one it is about
\* to make, elsewhere the number of attempts made.
AttemptCounter ==
    IF pc = "controller" /\ HasNextAttempt(ctl, max_attempts)
    THEN ctl.attempt
    ELSE ctl.calls

\* C16: with max_attempts >= 1, from the call of validate_tiktok_channel on
\* the attempt counter is between 1 and max_attempts; a call that has
\* returned is in RESOLVED_UNDEFINED exactly when it made max_attempts
\* attempts and each returned NONE or ERROR; and RESOLVED_UNDEFINED is
\* handed to the caller with status undefined and no exception.
C16_CounterAndExhaustion ==
    (max_attempts >= 1 /\ ctl.state # "IDLE") =>
        /\ AttemptCounter \in 1..max_attempts
        /\ ctl.calls = indefinite + definitive
               + (IF pc \in {"attempt", "raised"} THEN 1 ELSE 0)
        /\ Terminal(ctl) =>
              (ctl.state = "RESOLVED_UNDEFINED" <=>
                  (ctl.calls = max_attempts /\ indefinite = max_attempts))
        /\ ctl.state = "RESOLVED_UNDEFINED" =>
              /\ ctl.status = "undefined"
              /\ exc = ""
              /\ pc \in {"update", "loop", "write", "returned"}

C16_Witness ==
    /\ pc = "update"
    /\ ctl.state = "RESOLVED_UNDEFINED"
    /\ ctl.status = "undefined"
    /\ max_attempts = 2
    /\ ctl.calls = 2
    /\ indefinite = 2
    /\ exc = ""

\* C17: a call of validate_tiktok_channel has slept once less than it has
\* made attempts, while an attempt runs and when it has returned.
C17_SleepsBetweenAttempts ==
    (Terminal(ctl) \/ pc \in {"attempt", "after_attempt"}) =>
        ctl.sleeps = ctl.calls - 1

\* The usernames of the input the output file held no status for before
\* the run, in input order.
NonSkipped == SelectSeq(input_file, LAMBDA u : ~HasStored(store0, u))

\* C18: the usernames validate_tiktok_channel was called for are the first
\* of the non-skipped usernames in input order; while a call runs it is the
\* call for the last of them and every earlier one has its status in the
\* rows; the next call starts only when the previous one has returned; and
\* sessions are opened and attempts run only inside the call that runs.
C18_StrictlySequential ==
    /\ Len(probed) <= Len(NonSkipped)
    /\ probed = SubSeq(NonSkipped, 1, Len(probed))
    /\ opened_for \subseteq Range(probed)
    /\ sa_pc # "idle" => pc = "attempt"
    /\ pc \in {"controller", "attempt", "after_attempt"} =>
          /\ Len(probed) = i
          /\ ctl.state = "ATTEMPTING"
    /\ pc = "update" => Len(probed) = i /\ Terminal(ctl)
    /\ pc = "loop" =>
          /\ Len(probed) = i - 1
          /\ i > 1 => Terminal(ctl)
    /\ pc \in {"loop", "controller", "attempt", "after_attempt", "update"} =>
          \A k \in 1..(i - 1) :
              \E j \in DOMAIN all_channels :
                  /\ all_channels[j].username = NonSkipped[k]
                  /\ all_channels[j].status \in Statuses

C18_Witness ==
    /\ pc = "attempt"
    /\ sa_pc = "get"
    /\ probed = << <<"x">>, <<"X">> >>
    /\ ctl.calls = 2
    /\ all_channels[1].status = "undefined"
    /\ all_channels[2].status = NoStatus

\* C19: when validate_tiktok_channel is about to be called for the next
\* username the run has slept once for every call made so far, at any other
\* time once less than calls made; a run that reaches the report with m >= 1
\* non-skipped usernames has slept m - 1 times, one with none has not slept.
C19_InterTargetDelays ==
    /\ pc = "loop" => inter_sleeps = Len(probed)
    /\ (pc # "loop" /\ probed # <<>>) => inter_sleeps = Len(probed) - 1
    /\ probed = <<>> => inter_sleeps = 0
    /\ (pc \in {"write", "returned"} /\ Len(NonSkipped) >= 1) =>
          inter_sleeps = Len(NonSkipped) - 1

C19_Witness ==
    /\ pc = "returned"
    /\ written
    /\ Len(input_file) = 2
    /\ Len(NonSkipped) = 2
    /\ inter_sleeps = 1
    /\ store0 # <<>>

\* C20: at most one session is open at any time; an attempt starts with no
\* session open; and the sessions opened during a call of
\* validate_tiktok_channel are as many as the attempts made, one less while
\* the last attempt has yet to open its session or failed to.
C20_OneSessionPerAttempt ==
    /\ sessions <= 1
    /\ (pc = "attempt" /\ sa_pc = "setup") => sessions = 0 /\ opened = ctl.calls - 1
    /\ exc = "setup_chrome_driver" => opened = ctl.calls - 1
    /\ (~(pc = "attempt" /\ sa_pc = "setup") /\ exc # "setup_chrome_driver") =>
          opened = ctl.calls
    /\ (pc = "attempt" /\ sa_pc \notin {"setup", "idle"}) => sessions = 1

C20_Witness ==
    /\ pc = "update"
    /\ ctl.calls = 2
    /\ opened = 2
    /\ sessions = 0
    /\ Len(probed) = 2
    /\ opened_for = {<<"x">>, <<"X">>}

\* The texts of the error container that do not hold the phrase.
MismatchTexts == {TextOther, <<>>}

\* C21: when the error container is found and its text does not hold the
\* phrase, the single attempt goes on to the title wait and has, at its
\* return, VALID_RULE with the title when the title is found and NONE when
\* that wait times out; it has never INVALID_RULE, and always one of the
\* four results.
C21_MismatchFallsThrough ==
    (pc = "attempt" /\ sa_pc = "finally" /\ page.absence.kind = "found"
        /\ page.absence.text \in MismatchTexts) =>
        /\ presence_checked
        /\ page.presence.kind = "found" =>
              result = VALID_RESULT(page.presence.text)
        /\ page.presence.kind = "timeout" => result = NO_MATCH_RESULT
        /\ result.rule_matched # "INVALID_RULE"
        /\ result.rule_matched \in {"VALID_RULE", "NONE", "ERROR"}

C21_Witness ==
    /\ pc = "attempt"
    /\ sa_pc = "finally"
    /\ page.absence = [kind |-> "found", text |-> TextOther]
    /\ page.presence = [kind |-> "found", text |-> TitleBob]
    /\ result = VALID_RESULT(TitleBob)

\* C22: at its return the single attempt has exactly one of the four
\* results; when neither wait raised anything but TimeoutException and the
\* title wait ran, the result is not ERROR; and the result is NONE exactly
\* when the page was fetched, the error container was not found with the
\* phrase, and the title wait ran and timed out.
C22_TotalExclusive ==
    (pc = "attempt" /\ sa_pc = "finally") =>
        /\ \/ \E t \in ErrorTexts : result = INVALID_RESULT(t)
           \/ \E t \in Titles : result = VALID_RESULT(t)
           \/ result = NO_MATCH_RESULT
           \/ result = ERROR_RESULT
        /\ Cardinality({r \in {"INVALID_RULE", "VALID_RULE", "NONE", "ERROR"} :
                           result.rule_matched = r}) = 1
        /\ (presence_checked /\ page.absence.kind \in {"found", "timeout"}
               /\ page.presence.kind \in {"found", "timeout"}) =>
              result.rule_matched # "ERROR"
        /\ result.rule_matched = "NONE" <=>
              /\ presence_checked
              /\ page.presence.kind = "timeout"
              /\ page.absence.kind # "raise"
              /\ ~(page.absence.kind = "found"
                     /\ page.absence.text \in ErrorTexts \ MismatchTexts)
        /\ result.rule_matched = "INVALID_RULE" <=>
              /\ page.absence.kind = "found"
              /\ page.absence.text \in ErrorTexts \ MismatchTexts
        /\ result.rule_matched = "VALID_RULE" <=>
              (presence_checked /\ page.presence.kind = "found")

C22_Witness ==
    /\ pc = "attempt"
    /\ sa_pc = "finally"
    /\ page.absence = [kind |-> "timeout", text |-> <<>>]
    /\ page.presence = [kind |-> "timeout", text |-> <<>>]
    /\ presence_checked
    /\ result = NO_MATCH_RESULT

\* C23: when the output file cannot be read and the input has rows, the run
\* ends with the exception of read_existing_results and a non-zero exit
\* status after one read, without a call of validate_tiktok_channel, without
\* a session and without writing the output file.
C23_ReadFailureAborts ==
    (~store_readable /\ input_file # <<>> /\ pc # "start") =>
        /\ pc = "raised"
        /\ exc = "read_existing_results"
        /\ ExitStatus = 1
        /\ store_reads = 1
        /\ probed = <<>>
        /\ opened_for = {}
        /\ ctl = IdleController
        /\ ~written
        /\ store_writes = 0
        /\ output_file = store0

C23_Witness ==
    /\ pc = "raised"
    /\ exc = "read_existing_results"
    /\ ~store_readable
    /\ Len(input_file) = 2
    /\ store0 # <<>>
    /\ store_reads = 1
    /\ probed = <<>>

\* The run reached write_sorted_csv.
ReachedWrite == written

\* A single attempt did not return: setup_chrome_driver or driver.quit
\* raised.
AttemptDidNotReturn == exc \in {"setup_chrome_driver", "driver.quit"}

\* C24 as stated: unless a single attempt fails to return, every run reaches
\* the write of the output file, and the attempts of a run are at most the
\* non-skipped usernames times max_attempts.
C24_AsStated ==
    /\ [](attempts <= Len(NonSkipped) * max_attempts)
    /\ (pc = "start") ~> (ReachedWrite \/ AttemptDidNotReturn)

\* C24: unless a single attempt fails to return or the output file cannot
\* be read, every run over a non-empty input reaches the write of the
\* output file; and the attempts of a run are at most the usernames
\* validate_tiktok_channel was called for, which are at most the
\* non-skipped ones, times max_attempts, or none when max_attempts is
\* negative.
C24_TerminatesWithinBound ==
    /\ [](/\ Len(probed) <= Len(NonSkipped)
          /\ attempts <= Len(probed)
                             * (IF max_attempts > 0 THEN max_attempts ELSE 0))
    /\ (pc = "start" /\ input_file # <<>>) ~>
           (ReachedWrite \/ AttemptDidNotReturn
               \/ exc = "read_existing_results")

C24_Witness ==
    /\ pc = "returned"
    /\ written
    /\ run = 1
    /\ max_attempts = 2
    /\ Len(NonSkipped) = 2
    /\ attempts = 4

\* C26: when the statuses of the output file before the run are valid,
\* invalid or undefined, every row of the output file a run has written and
\* returned from has one of these statuses.
C26_EveryRowHasStatus ==
    (pc = "returned" /\ written
        /\ \A j \in DOMAIN store0 : store0[j].status \in Statuses) =>
        \A j \in DOMAIN output_file : output_file[j].status \in Statuses

\* C25: after extract_usernames and save_channels_to_csv on a channel CSV
\* in which no two rows have usernames that are equal in lower case, no two
\* rows of the channel CSV have usernames that are equal in lower case.
NoCaseInsensitiveDuplicates(file) ==
    \A j, k \in DOMAIN file :
        Lower(file[j].username) = Lower(file[k].username) => j = k

C25_NoCaseInsensitiveDuplicates ==
    (pc = "saved" /\ NoCaseInsensitiveDuplicates(fin_csv0)) =>
        NoCaseInsensitiveDuplicates(fin_csv)

\* C27: after save_channels_to_csv every row the channel CSV held before
\* the call is still there with its username, profile_url and first_found;
\* the first count returned is the number of rows added; and the CSV has as
\* many rows as before plus that count.
C27_OnlyAddsOrUpdates ==
    pc = "saved" =>
        /\ \A j \in DOMAIN fin_csv0 :
              \E k \in DOMAIN fin_csv :
                  /\ fin_csv[k].username = fin_csv0[j].username
                  /\ fin_csv[k].profile_url = fin_csv0[j].profile_url
                  /\ fin_csv[k].first_found = fin_csv0[j].first_found
        /\ Len(fin_csv) = Len(fin_csv0) + fin_counts[1]
        /\ fin_counts[1] =
              Cardinality({k \in DOMAIN fin_csv : fin_csv[k].first_found = "t1"})

\* The urls of the links whose download succeeded, in link order.
RECURSIVE DownloadedFrom(_, _)
DownloadedFrom(links, outcomes) ==
    IF outcomes = <<>> \/ links = <<>> THEN <<>>
    ELSE IF Head(outcomes) = "success"
         THEN <<Head(links)>> \o DownloadedFrom(Tail(links), Tail(outcomes))
         ELSE DownloadedFrom(Tail(links), Tail(outcomes))

\* C28: a run of process_links over at least one link ends without an
\* exception, with download_video_with_ytdlp called once for every link in
\* file order, with one metadata entry for every link whose download
\* succeeded, in link order, each with an analysis or the fallback record,
\* and with save_metadata called once, with that list.
C28_FailureIsolation ==
    (pc \in {"done", "raised"} /\ vid_links # <<>>) =>
        /\ exc = ""
        /\ vid_attempted = vid_links
        /\ [k \in DOMAIN vid_metadata |-> vid_metadata[k].video_url]
              = DownloadedFrom(vid_links, vid_download)
        /\ \A k \in DOMAIN vid_metadata :
              vid_metadata[k].analysis \in AnalysisOutcomes
        /\ Len(vid_saves) = 1
        /\ vid_saves[1].metadata_list = vid_metadata

=============================================================================
